---------------------------- MODULE Spec2Model ----------------------------
(***************************************************************************)
(* PIC18 ICSP protocol handler (pyHydrabus/pic18.py).                      *)
(*                                                                         *)
(* The host calls the public methods of class PIC18 one at a time.  Every  *)
(* method is a straight-line script of transport calls (line drives,       *)
(* write_bits, write, read, clocks) with one dynamic construct, the        *)
(* `while self.poll_wr(): continue` loop.  A call puts its script in       *)
(* `todo`; one step of the model is one transport call, so that a failure  *)
(* of the transport can strike between any two of them.  `wire` is the     *)
(* trace of the transport calls the current (or last) call has made.       *)
(***************************************************************************)
EXTENDS Integers, Sequences, FiniteSets, TLC

VARIABLES
    sda,      \* PGD: value last driven on the data line
    clk,      \* PGC: value last driven on the clock line
    aux,      \* aux[0] = AUX[0].value (/MCLR), aux[1] = AUX[1].value (PGM)
    wire,     \* transport calls made by the current / last public call
    todo,     \* transport calls the running call has still to make
    pc,       \* "idle": no call, "run": a call is running, "done": it has
              \* returned or raised and the host has its outcome in hand
    op,       \* the current / last call and its arguments
    data,     \* the local accumulator `data` of the reading methods
    busy,     \* the value the last poll_wr() returned
    polls,    \* busy answers the target has given during the current call
    ret,      \* outcome of the last call: "none" | "ok" | an exception name
    raised    \* history: some call so far has ended by raising

vars == <<sda, clk, aux, wire, todo, pc, op, data, busy, polls, ret, raised>>

-----------------------------------------------------------------------------
(* Bounds of the model.                                                    *)

\* longest payload handed to write() and longest length asked of read()
MaxLen == 4
\* busy answers the target may give during one call
MaxPolls == 2
\* longest payload handed to a direct send_cmd() call
MaxPayload == 2
\* longest payload handed to a program-memory write(); an EEPROM write()
\* waits on the target after every byte and keeps to MaxLen
MaxPgmLen == 6

-----------------------------------------------------------------------------
(* Python bytes are sequences of 0..255; s[a:b] is Slice(s, a, b).         *)

Min(a, b) == IF a < b THEN a ELSE b

Slice(s, a, b) == SubSeq(s, a + 1, Min(b, Len(s)))

Reverse(s) == [i \in 1..Len(s) |-> s[Len(s) + 1 - i]]

\* int.to_bytes(n, byteorder='big'); OverflowError when the value does not fit
Fits(address, n) == address < 256 ^ n

to_bytes(address, n) == [i \in 1..n |-> (address \div (256 ^ (n - i))) % 256]

-----------------------------------------------------------------------------
(* Transport calls.  One shape for all, so that traces compare: the kind   *)
(* of call, its value, and its count (bits, bytes, pulses, seconds) or,    *)
(* for an auxiliary line, its index.                                       *)

Ev(t, v, n) == <<t, v, n>>

Kind(e)  == e[1]
Value(e) == e[2]
Count(e) == e[3]

SetSda(v)      == Ev("sda", v, 0)        \* self.sda = v
SetClk(v)      == Ev("clk", v, 0)        \* self.clk = v
SetAux(i, v)   == Ev("aux", v, i)        \* self.AUX[i].value = v
WriteBits(v,n) == Ev("bits", v, n)       \* super().write_bits(v, n)
WriteBytes(s)  == IF Len(s) = 0 THEN Ev("tx", 0, 0) ELSE Ev("tx", s[1], Len(s))
                                         \* super().write(s), s of 0 or 1 byte
ReadData       == Ev("rxdata", 0, 1)     \* data += super().read(1)
ReadPoll(loop) == Ev("rxpoll", loop, 1)  \* super().read(1) inside poll_wr
Clocks(n)      == Ev("clocks", 0, n)     \* self.clocks(n)
Sleep(n)       == Ev("sleep", 0, n)      \* time.sleep(n)
Overflow       == Ev("raise", 0, 0)      \* to_bytes raises OverflowError
Received(b)    == Ev("rx", b, 1)         \* a byte that read(1) returned

-----------------------------------------------------------------------------
(* Programming-mode transitions.                                           *)

_enter_prog == << SetSda(0), SetClk(0), SetAux(1, 1), SetAux(0, 1) >>

\* mutant: Exit releases PGM before /MCLR
_exit_prog_pgm_first == << SetSda(0), SetClk(0), SetAux(1, 0), SetAux(0, 0) >>

_exit_prog == << SetSda(0), SetClk(0), SetAux(0, 0), SetAux(1, 0) >>

(* Command encoder.                                                        *)

\* mutant: the parity test of the payload length inverted
send_cmd_swapped(cmd, payload) ==
    << WriteBits(cmd, 4) >> \o
    IF Len(payload) % 2 = 0
    THEN << WriteBytes(Slice(payload, 0, 1)) >>
    ELSE << WriteBytes(Slice(payload, 1, 2)), WriteBytes(Slice(payload, 0, 1)) >>

send_cmd(cmd, payload) ==
    << WriteBits(cmd, 4) >> \o
    IF Len(payload) % 2 = 0
    THEN << WriteBytes(Slice(payload, 1, 2)), WriteBytes(Slice(payload, 0, 1)) >>
    ELSE << WriteBytes(Slice(payload, 0, 1)) >>

RECURSIVE nop(_)
nop(repeat) ==
    IF repeat = 0 THEN << >>
    ELSE send_cmd(0, <<0, 0>>) \o nop(repeat - 1)

(* Register sequencer.                                                     *)

set_eeaddr(address) ==
    IF ~Fits(address, 2) THEN << Overflow >>
    ELSE LET EEADDR == to_bytes(address, 2) IN
         send_cmd(0, <<\h0E>> \o Slice(EEADDR, 0, 1)) \o
         send_cmd(0, <<\h6E, \hAA>>) \o
         send_cmd(0, <<\h0E>> \o Slice(EEADDR, 1, 2)) \o
         send_cmd(0, <<\h6E, \hA9>>)

\* mutant: the table pointer loaded low byte first
set_tblptr_low_first(address) ==
    IF ~Fits(address, 3) THEN << Overflow >>
    ELSE LET TBLPTR == to_bytes(address, 3) IN
         send_cmd(0, <<\h0E>> \o Slice(TBLPTR, 2, 3)) \o
         send_cmd(0, <<\h6E, \hF8>>) \o
         send_cmd(0, <<\h0E>> \o Slice(TBLPTR, 1, 2)) \o
         send_cmd(0, <<\h6E, \hF7>>) \o
         send_cmd(0, <<\h0E>> \o Slice(TBLPTR, 0, 1)) \o
         send_cmd(0, <<\h6E, \hF6>>)

set_tblptr(address) ==
    IF ~Fits(address, 3) THEN << Overflow >>
    ELSE LET TBLPTR == to_bytes(address, 3) IN
         send_cmd(0, <<\h0E>> \o Slice(TBLPTR, 0, 1)) \o
         send_cmd(0, <<\h6E, \hF8>>) \o
         send_cmd(0, <<\h0E>> \o Slice(TBLPTR, 1, 2)) \o
         send_cmd(0, <<\h6E, \hF7>>) \o
         send_cmd(0, <<\h0E>> \o Slice(TBLPTR, 2, 3)) \o
         send_cmd(0, <<\h6E, \hF6>>)

(* poll_wr: the transport calls up to and including its read(1).  `loop`   *)
(* is 1 when the call is the condition of `while self.poll_wr()`.          *)

poll_wr_script(loop) ==
    send_cmd(0, <<\h50, \hA6>>) \o
    send_cmd(0, <<\h6E, \hF5>>) \o
    nop(1) \o
    send_cmd(2, <<0>>) \o
    << ReadPoll(loop) >>

\* mutant: bit 0 of the byte
poll_wr_value_bit0(b) == b % 2

\* (int.from_bytes(b) >> 1) & 1
poll_wr_value(b) == (b \div 2) % 2


-----------------------------------------------------------------------------
(* Operation layer: the script of each public method.                      *)

\* mutant: two no-ops before each byte is read back
RECURSIVE read_eeprom_loop_two_nops(_, _, _)
read_eeprom_loop_two_nops(addr, offset, length) ==
    IF offset >= length THEN << >>
    ELSE set_eeaddr(addr + offset) \o
         send_cmd(0, <<\h80, \hA6>>) \o
         send_cmd(0, <<\h6E, \hF5>>) \o
         send_cmd(0, <<\h50, \hA8>>) \o
         nop(2) \o
         << ReadData >> \o
         read_eeprom_loop_two_nops(addr, offset + 1, length)

RECURSIVE read_eeprom_loop(_, _, _)
read_eeprom_loop(addr, offset, length) ==
    IF offset >= length THEN << >>
    ELSE set_eeaddr(addr + offset) \o
         send_cmd(0, <<\h80, \hA6>>) \o
         send_cmd(0, <<\h6E, \hF5>>) \o
         send_cmd(0, <<\h50, \hA8>>) \o
         nop(1) \o
         << ReadData >> \o
         read_eeprom_loop(addr, offset + 1, length)

RECURSIVE table_read_loop(_, _)
table_read_loop(opcode, count) ==
    IF count = 0 THEN << >>
    ELSE send_cmd(opcode, <<0>>) \o << ReadData >> \o
         table_read_loop(opcode, count - 1)

\* mutant: the table pointer is loaded before programming mode is entered
read_script_late_enter(addr, length, eeprom) ==
    ( IF eeprom
      THEN _enter_prog \o
           send_cmd(0, <<\h9E, \hA6>>) \o
           send_cmd(0, <<\h9C, \hA6>>) \o
           read_eeprom_loop(addr, 0, length)
      ELSE set_tblptr(addr) \o
           _enter_prog \o
           table_read_loop(\h09, length) ) \o
    _exit_prog

\* mutant: program memory read with TABLE_READ, which does not advance
read_script_no_post_inc(addr, length, eeprom) ==
    _enter_prog \o
    ( IF eeprom
      THEN send_cmd(0, <<\h9E, \hA6>>) \o
           send_cmd(0, <<\h9C, \hA6>>) \o
           read_eeprom_loop(addr, 0, length)
      ELSE set_tblptr(addr) \o
           table_read_loop(\h08, length) ) \o
    _exit_prog

read_script(addr, length, eeprom) ==
    _enter_prog \o
    ( IF eeprom
      THEN send_cmd(0, <<\h9E, \hA6>>) \o
           send_cmd(0, <<\h9C, \hA6>>) \o
           read_eeprom_loop(addr, 0, length)
      ELSE set_tblptr(addr) \o
           table_read_loop(\h09, length) ) \o
    _exit_prog

\* mutant: the next byte is latched without waiting for the write
RECURSIVE write_eeprom_loop_no_wait(_, _, _)
write_eeprom_loop_no_wait(bytes, d, length) ==
    IF d >= length THEN << >>
    ELSE send_cmd(\h0E, Slice(bytes, d, d + 1)) \o
         send_cmd(0, <<\h84, \hA6>>) \o
         nop(2) \o
         write_eeprom_loop_no_wait(bytes, d + 1, length)

RECURSIVE write_eeprom_loop(_, _, _)
write_eeprom_loop(bytes, d, length) ==
    IF d >= length THEN << >>
    ELSE send_cmd(\h0E, Slice(bytes, d, d + 1)) \o
         send_cmd(0, <<\h84, \hA6>>) \o
         nop(2) \o
         poll_wr_script(1) \o
         write_eeprom_loop(bytes, d + 1, length)

\* mutant: the pairs are handed to the encoder without [::-1]
RECURSIVE write_pairs_unreversed(_, _, _)
write_pairs_unreversed(bytes, d, length) ==
    IF d < length - 2
    THEN send_cmd(\h0D, Slice(bytes, d, d + 2)) \o
         write_pairs_unreversed(bytes, d + 2, length)
    ELSE send_cmd(\h0F, Slice(bytes, d, length))

\* mutant: the last pair sent with 0x0D like the pairs before it
RECURSIVE write_pairs_no_final(_, _, _)
write_pairs_no_final(bytes, d, length) ==
    IF d < length
    THEN send_cmd(\h0D, Reverse(Slice(bytes, d, d + 2))) \o
         write_pairs_no_final(bytes, d + 2, length)
    ELSE << >>

\* the for loop of the program-memory branch, then "Write last two bytes";
\* on leaving the loop d here is Python's d + 2
RECURSIVE write_pairs(_, _, _)
write_pairs(bytes, d, length) ==
    IF d < length - 2
    THEN send_cmd(\h0D, Reverse(Slice(bytes, d, d + 2))) \o
         write_pairs(bytes, d + 2, length)
    ELSE send_cmd(\h0F, Reverse(Slice(bytes, d, length)))

write_script(addr, bytes, eeprom, erase) ==
    LET length == Len(bytes) IN
    _enter_prog \o
    ( IF eeprom
      THEN send_cmd(0, <<\h9E, \hA6>>) \o
           send_cmd(0, <<\h9C, \hA6>>) \o
           set_eeaddr(addr) \o
           send_cmd(0, <<\h84, \hA6>>) \o
           write_eeprom_loop(bytes, 0, length)
      ELSE send_cmd(0, <<\h8E, \hA6>>) \o
           send_cmd(0, <<\h9C, \hA6>>) \o
           set_tblptr(addr) \o
           send_cmd(0, <<\h84, \hA6>>) \o
           send_cmd(0, <<\h88, \hA6>>) \o
           ( IF erase
             THEN send_cmd(0, <<\h88, \hA6>>) \o
                  send_cmd(0, <<\h82, \hA6>>) \o
                  nop(2) \o
                  poll_wr_script(1)
             ELSE << >> ) \o
           ( IF length = 2
             THEN send_cmd(\h0F, bytes)
             ELSE write_pairs(bytes, 0, length) ) \o
           << SetSda(0), Clocks(3), SetClk(1), Sleep(1) >> ) \o
    << SetClk(0) >> \o
    nop(2) \o
    send_cmd(0, <<\h94, \hA6>>) \o
    _exit_prog

\* mutant: the two identifier bytes written in the other order
erase_panel_script_swapped(panel) ==
    _enter_prog \o
    set_tblptr(\h3C0004) \o
    send_cmd(\h0C, Slice(panel, 1, 2) \o Slice(panel, 1, 2)) \o
    set_tblptr(\h3C0005) \o
    send_cmd(\h0C, Slice(panel, 0, 1) \o Slice(panel, 0, 1)) \o
    send_cmd(0, <<0, 0>>) \o
    send_cmd(0, <<0, 0>>) \o
    _exit_prog

\* mutant: the erase is waited for like the erase of write()
erase_panel_script_polled(panel) ==
    _enter_prog \o
    set_tblptr(\h3C0005) \o
    send_cmd(\h0C, Slice(panel, 0, 1) \o Slice(panel, 0, 1)) \o
    set_tblptr(\h3C0004) \o
    send_cmd(\h0C, Slice(panel, 1, 2) \o Slice(panel, 1, 2)) \o
    send_cmd(0, <<0, 0>>) \o
    send_cmd(0, <<0, 0>>) \o
    poll_wr_script(1) \o
    _exit_prog

erase_panel_script(panel) ==
    _enter_prog \o
    set_tblptr(\h3C0005) \o
    send_cmd(\h0C, Slice(panel, 0, 1) \o Slice(panel, 0, 1)) \o
    set_tblptr(\h3C0004) \o
    send_cmd(\h0C, Slice(panel, 1, 2) \o Slice(panel, 1, 2)) \o
    send_cmd(0, <<0, 0>>) \o
    send_cmd(0, <<0, 0>>) \o
    _exit_prog

\* `address=None`
NoAddr == -1

get_cfg_ID_script(address) ==
    LET a == IF address = NoAddr THEN \h300000 ELSE address IN
    _enter_prog \o set_tblptr(a) \o table_read_loop(\h09, 14) \o _exit_prog

RECURSIVE loc_ID_loop(_, _)
loc_ID_loop(address, count) ==
    IF count = 0 THEN << >>
    ELSE set_tblptr(address) \o send_cmd(\h08, <<0>>) \o << ReadData >> \o
         loc_ID_loop(address, count - 1)

get_loc_ID_script(address) ==
    LET a == IF address = NoAddr THEN \h200000 ELSE address IN
    _enter_prog \o loc_ID_loop(a, 8) \o _exit_prog

\* mutant: the default address of get_cfg_ID copied into get_dev_ID
get_dev_ID_script_cfg_default(address) ==
    LET a == IF address = NoAddr THEN \h300000 ELSE address IN
    _enter_prog \o set_tblptr(a) \o table_read_loop(\h09, 2) \o _exit_prog

get_dev_ID_script(address) ==
    LET a == IF address = NoAddr THEN \h3FFFFE ELSE address IN
    _enter_prog \o set_tblptr(a) \o table_read_loop(\h09, 2) \o _exit_prog

-----------------------------------------------------------------------------
(* Inputs of the calls, and the answers of the target.                     *)

\* table-pointer / EEPROM addresses the host passes
Addrs == { \h000800, \h00FFFF, \h12AB34 }

\* addresses the host passes to a direct set_tblptr() / set_eeaddr() call
SeqAddrs == Addrs \cup { \h000000, \h00ABCD, \h010000, \hFFFFFF, \h1000000 }

\* the first n bytes of "ABCDEF..."; Payload(4) is b"ABCD"
Payload(n) == [i \in 1..n |-> \h40 + i]

\* the panel table of the class docstring
Panels == { <<\h00, \h81>>, <<\h00, \h82>>, <<\h00, \h84>>, <<\h00, \h88>>,
            <<\h01, \h80>>, <<\h02, \h80>>, <<\h04, \h80>>, <<\h08, \h80>>,
            <<\h0F, \h8F>> }

\* payloads of a direct send_cmd() call
PayloadBytes == { \h41, \h42 }
Payloads(longest) == UNION { [1..k -> PayloadBytes] : k \in 0..longest }

\* memory images of the target: the k-th byte (from 0) a call reads back
Images == { 0, 1, 2 }
Image(img, k) ==
    CASE img = 0 -> 0
      [] img = 1 -> (\hA0 + k) % 256
      [] OTHER   -> (\hFF - 3 * k) % 256

\* bytes the target answers to a poll: any byte to a single poll_wr(), a
\* small set (idle, busy, idle with other bits set) inside a wait loop
PollBytes(loop) == IF loop = 1 THEN { \h00, \h02, \hFD } ELSE 0..255

-----------------------------------------------------------------------------
(* The programming-mode state machine, read off the control lines.         *)

Mode == IF aux[0] = 1 /\ aux[1] = 1 THEN "Programming" ELSE "Idle"

Call(name, addr, length, bytes, eeprom, erase, cmd, img) ==
    [data |-> bytes, cmd |-> cmd, addr |-> addr, length |-> length,
     eeprom |-> eeprom, erase |-> erase, img |-> img, name |-> name]

NoCall == Call("none", 0, 0, << >>, FALSE, FALSE, 0, 0)

Init ==
    /\ sda = 0
    /\ clk = 0
    /\ aux = [i \in 0..1 |-> 0]
    /\ wire = << >>
    /\ todo = << >>
    /\ pc = "idle"
    /\ op = NoCall
    /\ data = << >>
    /\ busy = 0
    /\ polls = 0
    /\ ret = "none"
    /\ raised = FALSE

\* a call starts running its script
Start(call, script) ==
    /\ pc = "idle"
    /\ pc' = "run"
    /\ op' = call
    /\ todo' = script
    /\ wire' = << >>
    /\ data' = << >>
    /\ polls' = 0
    /\ ret' = "none"
    /\ UNCHANGED <<sda, clk, aux, busy, raised>>

\* a call raises before its first transport call
Reject(call, exc) ==
    /\ pc = "idle"
    /\ op' = call
    /\ todo' = << >>
    /\ wire' = << >>
    /\ data' = << >>
    /\ polls' = 0
    /\ ret' = exc
    /\ raised' = TRUE
    /\ pc' = "done"
    /\ UNCHANGED <<sda, clk, aux, busy>>

\* mutant: the length check of read() left out
read_no_length_check(addr, length, eeprom, img) ==
    Start(Call("read", addr, length, << >>, eeprom, FALSE, 0, img),
          read_script(addr, length, eeprom))

read(addr, length, eeprom, img) ==
    LET call == Call("read", addr, length, << >>, eeprom, FALSE, 0, img) IN
    IF length = 0
    THEN Reject(call, "ValueError")
    ELSE Start(call, read_script(addr, length, eeprom))

\* mutant: the parity check of write() left out
write_no_parity_check(addr, bytes, eeprom, erase) ==
    LET call == Call("write", addr, Len(bytes), bytes, eeprom, erase, 0, 0) IN
    IF Len(bytes) < 2
    THEN Reject(call, "ValueError")
    ELSE Start(call, write_script(addr, bytes, eeprom, erase))

write(addr, bytes, eeprom, erase) ==
    LET call == Call("write", addr, Len(bytes), bytes, eeprom, erase, 0, 0)
        length == Len(bytes) IN
    IF length < 2
    THEN Reject(call, "ValueError")
    ELSE IF length % 2 = 1
         THEN Reject(call, "ValueError")
         ELSE Start(call, write_script(addr, bytes, eeprom, erase))

poll_wr ==
    Start(Call("poll_wr", 0, 0, << >>, FALSE, FALSE, 0, 0), poll_wr_script(0))

erase_panel(panel) ==
    Start(Call("erase_panel", 0, 0, panel, FALSE, FALSE, 0, 0),
          erase_panel_script(panel))

get_cfg_ID(address, img) ==
    Start(Call("get_cfg_ID", address, 0, << >>, FALSE, FALSE, 0, img),
          get_cfg_ID_script(address))

get_loc_ID(address, img) ==
    Start(Call("get_loc_ID", address, 0, << >>, FALSE, FALSE, 0, img),
          get_loc_ID_script(address))

get_dev_ID(address, img) ==
    Start(Call("get_dev_ID", address, 0, << >>, FALSE, FALSE, 0, img),
          get_dev_ID_script(address))

\* send_cmd called by the host itself
SendCmd(cmd, payload) ==
    Start(Call("send_cmd", 0, 0, payload, FALSE, FALSE, cmd, 0),
          send_cmd(cmd, payload))

\* set_tblptr / set_eeaddr called by the host itself
SetTblptr(address) ==
    Start(Call("set_tblptr", address, 0, << >>, FALSE, FALSE, 0, 0),
          set_tblptr(address))

SetEeaddr(address) ==
    Start(Call("set_eeaddr", address, 0, << >>, TRUE, FALSE, 0, 0),
          set_eeaddr(address))

-----------------------------------------------------------------------------
(* One transport call of the running script.                               *)

Running(kinds) == pc = "run" /\ todo # << >> /\ Kind(Head(todo)) \in kinds

LineKinds == { "sda", "clk", "aux" }
TransportKinds == LineKinds \cup { "bits", "tx", "rxdata", "rxpoll", "clocks" }

\* the property setters of the signal driver
Drive(it) ==
    /\ sda' = IF Kind(it) = "sda" THEN Value(it) ELSE sda
    /\ clk' = IF Kind(it) = "clk" THEN Value(it) ELSE clk
    /\ aux' = IF Kind(it) = "aux" THEN [aux EXCEPT ![Count(it)] = Value(it)] ELSE aux

DriveLine ==
    /\ Running(LineKinds)
    /\ Drive(Head(todo))
    /\ wire' = Append(wire, Head(todo))
    /\ todo' = Tail(todo)
    /\ UNCHANGED <<pc, op, data, busy, polls, ret, raised>>

\* write_bits(value, n) puts the low n bits of value on the wire
SendBits ==
    /\ Running({ "bits" })
    /\ wire' = Append(wire, WriteBits(Value(Head(todo)) % (2 ^ Count(Head(todo))), Count(Head(todo))))
    /\ todo' = Tail(todo)
    /\ UNCHANGED <<sda, clk, aux, pc, op, data, busy, polls, ret, raised>>

SendBytes ==
    /\ Running({ "tx" })
    /\ wire' = Append(wire, Head(todo))
    /\ todo' = Tail(todo)
    /\ UNCHANGED <<sda, clk, aux, pc, op, data, busy, polls, ret, raised>>

PulseClocks ==
    /\ Running({ "clocks" })
    /\ wire' = Append(wire, Head(todo))
    /\ todo' = Tail(todo)
    /\ UNCHANGED <<sda, clk, aux, pc, op, data, busy, polls, ret, raised>>

Hold ==
    /\ Running({ "sleep" })
    /\ wire' = Append(wire, Head(todo))
    /\ todo' = Tail(todo)
    /\ UNCHANGED <<sda, clk, aux, pc, op, data, busy, polls, ret, raised>>

\* data += super().read(1)
ReceiveData ==
    /\ Running({ "rxdata" })
    /\ LET b == Image(op.img, Len(data)) IN
       /\ wire' = Append(wire, Received(b))
       /\ data' = Append(data, b)
    /\ todo' = Tail(todo)
    /\ UNCHANGED <<sda, clk, aux, pc, op, busy, polls, ret, raised>>

\* the read(1) of poll_wr, its return value, and the `while` that tests it
ReceivePoll ==
    /\ Running({ "rxpoll" })
    /\ \E b \in PollBytes(Value(Head(todo))) :
        /\ wire' = Append(wire, Received(b))
        /\ busy' = poll_wr_value(b)
        /\ IF Value(Head(todo)) = 1 /\ poll_wr_value(b) # 0
           THEN /\ polls < MaxPolls
                /\ polls' = polls + 1
                /\ todo' = poll_wr_script(1) \o Tail(todo)
           ELSE /\ polls' = polls
                /\ todo' = Tail(todo)
    /\ UNCHANGED <<sda, clk, aux, pc, op, data, ret, raised>>

\* int.to_bytes raises OverflowError: the call ends where it stands
RaiseOverflow ==
    /\ Running({ "raise" })
    /\ pc' = "done"
    /\ todo' = << >>
    /\ ret' = "OverflowError"
    /\ raised' = TRUE
    /\ UNCHANGED <<sda, clk, aux, wire, op, data, busy, polls>>

\* the signal driver raises: the call ends where it stands; a line drive
\* that failed may or may not have reached the line
TransportFailure ==
    /\ Running(TransportKinds)
    /\ \/ UNCHANGED <<sda, clk, aux>>
       \/ Kind(Head(todo)) \in LineKinds /\ Drive(Head(todo))
    /\ pc' = "done"
    /\ todo' = << >>
    /\ ret' = "TransportFailure"
    /\ raised' = TRUE
    /\ UNCHANGED <<wire, op, data, busy, polls>>

Return ==
    /\ pc = "run"
    /\ todo = << >>
    /\ pc' = "done"
    /\ ret' = "ok"
    /\ UNCHANGED <<sda, clk, aux, wire, todo, op, data, busy, polls, raised>>

\* the host takes the outcome and is free to make its next call; only the
\* lines keep what the call left on them
HostContinues ==
    /\ pc = "done"
    /\ pc' = "idle"
    /\ op' = NoCall
    /\ wire' = << >>
    /\ data' = << >>
    /\ busy' = 0
    /\ polls' = 0
    /\ ret' = "none"
    /\ UNCHANGED <<sda, clk, aux, todo, raised>>

Next ==
    \/ \E addr \in Addrs, length \in 0..MaxLen, eeprom \in BOOLEAN, img \in Images :
          read(addr, length, eeprom, img)
    \/ \E addr \in Addrs, n \in 0..MaxPgmLen, eeprom \in BOOLEAN, erase \in BOOLEAN :
          /\ eeprom => n <= MaxLen
          /\ write(addr, Payload(n), eeprom, erase)
    \/ poll_wr
    \/ \E panel \in Panels : erase_panel(panel)
    \/ \E address \in Addrs \cup { NoAddr }, img \in Images : get_cfg_ID(address, img)
    \/ \E address \in Addrs \cup { NoAddr }, img \in Images : get_loc_ID(address, img)
    \/ \E address \in Addrs \cup { NoAddr }, img \in Images : get_dev_ID(address, img)
    \/ \E cmd \in 0..15, payload \in Payloads(MaxPayload) : SendCmd(cmd, payload)
    \/ \E address \in SeqAddrs : SetTblptr(address)
    \/ \E address \in SeqAddrs : SetEeaddr(address)
    \/ DriveLine
    \/ SendBits
    \/ SendBytes
    \/ PulseClocks
    \/ Hold
    \/ ReceiveData
    \/ ReceivePoll
    \/ RaiseOverflow
    \/ TransportFailure
    \/ Return
    \/ HostContinues

Spec == Init /\ [][Next]_vars

-----------------------------------------------------------------------------
(* write() against a target that may stay busy for ever.  The wait loop    *)
(* `while self.poll_wr(): continue` has no bound; to keep the trace        *)
(* finite, `wire` keeps the first MaxPolls busy polls of a call and drops  *)
(* every later busy poll once it has been answered, so that a target that  *)
(* stays busy takes the call round a cycle of states.  The signal driver   *)
(* does not fail here: the loop is left by the answer of the target only.  *)

\* mutant: the wait loop gives up after MaxPolls busy answers
ReceivePollLive_timeout ==
    /\ Running({ "rxpoll" })
    /\ \E b \in PollBytes(Value(Head(todo))) :
        /\ busy' = poll_wr_value(b)
        /\ wire' = Append(wire, Received(b))
        /\ IF Value(Head(todo)) = 1 /\ poll_wr_value(b) # 0 /\ polls < MaxPolls
           THEN /\ polls' = polls + 1
                /\ todo' = poll_wr_script(1) \o Tail(todo)
           ELSE /\ polls' = polls
                /\ todo' = Tail(todo)
    /\ UNCHANGED <<sda, clk, aux, pc, op, data, ret, raised>>

\* the read(1) of poll_wr, its return value, and the `while` that tests it
ReceivePollLive ==
    /\ Running({ "rxpoll" })
    /\ \E b \in PollBytes(Value(Head(todo))) :
        /\ busy' = poll_wr_value(b)
        /\ IF Value(Head(todo)) = 1 /\ poll_wr_value(b) # 0
           THEN /\ todo' = poll_wr_script(1) \o Tail(todo)
                /\ IF polls < MaxPolls
                   THEN /\ polls' = polls + 1
                        /\ wire' = Append(wire, Received(b))
                   ELSE /\ polls' = polls
                        /\ wire' = SubSeq(wire, 1, Len(wire) + 1 - Len(poll_wr_script(1)))
           ELSE /\ polls' = polls
                /\ wire' = Append(wire, Received(b))
                /\ todo' = Tail(todo)
    /\ UNCHANGED <<sda, clk, aux, pc, op, data, ret, raised>>

\* the steps of a running write(): Python runs them one after the other
WriteSteps ==
    \/ DriveLine
    \/ SendBits
    \/ SendBytes
    \/ PulseClocks
    \/ Hold
    \/ ReceivePollLive
    \/ RaiseOverflow
    \/ Return

NextLive ==
    \/ \E addr \in Addrs, n \in 0..MaxPgmLen, eeprom \in BOOLEAN, erase \in BOOLEAN :
          /\ eeprom => n <= MaxLen
          /\ write(addr, Payload(n), eeprom, erase)
    \/ DriveLine
    \/ SendBits
    \/ SendBytes
    \/ PulseClocks
    \/ Hold
    \/ ReceivePollLive
    \/ RaiseOverflow
    \/ Return
    \/ HostContinues

SpecLive == Init /\ [][NextLive]_vars /\ WF_vars(WriteSteps)

-----------------------------------------------------------------------------
(* Vocabulary of the properties: the wire as the protocol description      *)
(* spells it, written out independently of the scripts above.              *)

\* the six operations that open a programming session
SessionOps == { "read", "write", "erase_panel",
                "get_cfg_ID", "get_loc_ID", "get_dev_ID" }

Returned(name) == pc = "done" /\ ret = "ok" /\ op.name = name

\* <<"aux", v, i>> is AUX[i] driven to v: AUX[1] is PGM, AUX[0] is /MCLR
EnterTrace == << <<"sda", 0, 0>>, <<"clk", 0, 0>>,
                 <<"aux", 1, 1>>, <<"aux", 1, 0>> >>

ExitTrace == << <<"sda", 0, 0>>, <<"clk", 0, 0>>,
                <<"aux", 0, 0>>, <<"aux", 0, 1>> >>

LastFour(w) == SubSeq(w, Len(w) - 3, Len(w))

\* an instruction on the wire: the opcode nibble, then a two-byte payload
\* second byte first, or a one-byte payload as it is
Instr(opcode, payload) ==
    << <<"bits", opcode, 4>> >> \o
    IF Len(payload) = 2
    THEN << <<"tx", payload[2], 1>>,
            <<"tx", payload[1], 1>> >>
    ELSE << <<"tx", payload[1], 1>> >>

NoOp == Instr(0, <<0, 0>>)

\* the six core instructions that load a 24-bit table pointer
TablePointer(a) ==
    Instr(0, <<\h0E, (a \div 65536) % 256>>) \o Instr(0, <<\h6E, \hF8>>) \o
    Instr(0, <<\h0E, (a \div 256) % 256>>)   \o Instr(0, <<\h6E, \hF7>>) \o
    Instr(0, <<\h0E, a % 256>>)              \o Instr(0, <<\h6E, \hF6>>)

\* one table read (opcode) followed by the byte it returned
RECURSIVE TableReads(_, _)
TableReads(opcode, bytes) ==
    IF bytes = << >> THEN << >>
    ELSE Instr(opcode, <<0>>) \o << <<"rx", Head(bytes), 1>> >> \o
         TableReads(opcode, Tail(bytes))

\* the bytes a trace put on the wire with write(), in order
RECURSIVE TxBytes(_)
TxBytes(w) ==
    IF w = << >> THEN << >>
    ELSE (IF Kind(Head(w)) = "tx" /\ Count(Head(w)) > 0 THEN << Value(Head(w)) >> ELSE << >>)
         \o TxBytes(Tail(w))

\* the instructions of a trace: each opcode nibble with the bytes after it
RECURSIVE Instructions(_)
Instructions(w) ==
    IF w = << >> THEN << >>
    ELSE IF Kind(Head(w)) # "bits" THEN Instructions(Tail(w))
    ELSE LET rest == Tail(w)
             k == IF rest # << >> /\ Kind(rest[1]) = "tx"
                  THEN (IF Len(rest) > 1 /\ Kind(rest[2]) = "tx" THEN 2 ELSE 1)
                  ELSE 0
         IN << <<Value(Head(w))>> \o TxBytes(SubSeq(rest, 1, k)) >>
            \o Instructions(SubSeq(rest, k + 1, Len(rest)))

EncoderKinds == { "bits", "tx" }

-----------------------------------------------------------------------------
(* C1: scoped acquisition.  Whenever one of the session operations has     *)
(* performed Enter and has then returned or raised, it has performed Exit  *)
(* and the state machine is Idle.                                          *)
C1_ExitOnEveryPath ==
    ( /\ pc = "done"
      /\ op.name \in SessionOps
      /\ Len(wire) >= 4
      /\ SubSeq(wire, 1, 4) = EnterTrace )
    => ( /\ Mode = "Idle"
         /\ Len(wire) >= 8
         /\ LastFour(wire) = ExitTrace )

(* C2: one session per call.  While every call so far has run to normal    *)
(* completion, a call of one of `names` starts with the state machine      *)
(* Idle and with Enter as its first wire action, transmits encoder         *)
(* nibbles and bytes only in Programming, and returns with Exit as its     *)
(* last wire action, Idle, having driven the auxiliary lines in no other   *)
(* place.                                                                  *)
OneSessionPerCall(names) ==
    ( ~raised /\ op.name \in names ) =>
      /\ ( pc = "run" /\ wire = << >> ) =>
             ( Mode = "Idle" /\ Len(todo) >= 4 /\ SubSeq(todo, 1, 4) = EnterTrace )
      /\ ( pc = "run" /\ todo # << >> /\ Kind(Head(todo)) \in EncoderKinds ) =>
             Mode = "Programming"
      /\ ( pc = "done" /\ ret = "ok" ) =>
             /\ Len(wire) >= 8
             /\ SubSeq(wire, 1, 4) = EnterTrace
             /\ LastFour(wire) = ExitTrace
             /\ \A i \in 5..(Len(wire) - 4) : Kind(wire[i]) # "aux"
             /\ Mode = "Idle"

\* C2 as stated: the seven operations, poll_wr among them
C2_Original == OneSessionPerCall(SessionOps \cup { "poll_wr" })

\* C2 as amended: the six operations that open a session; poll_wr opens
\* none and transmits in whatever state it is called in
C2_OneSessionPerCall == OneSessionPerCall(SessionOps)

\* a write whose wait loop polled more than once has returned
C2_Witness == Returned("write") /\ ~raised /\ polls > 0

-----------------------------------------------------------------------------
(* C3: command encoder framing.  A direct send_cmd(opcode, payload) puts   *)
(* on the wire the opcode as a 4-bit field and then, for a payload of even *)
(* length, payload[1] followed by payload[0], for one of odd length,       *)
(* payload[0] alone; it makes no other kind of transport call.             *)
C3_EncoderFraming ==
    Returned("send_cmd") =>
      LET p == op.data IN
      /\ wire # << >>
      /\ wire[1] = <<"bits", op.cmd, 4>>
      /\ \A i \in 2..Len(wire) : Kind(wire[i]) = "tx"
      /\ TxBytes(wire) = IF Len(p) % 2 = 1 THEN << p[1] >>
                         ELSE IF Len(p) >= 2 THEN << p[2], p[1] >>
                         ELSE << >>

\* send_cmd(0x0C, b"AB") has returned
C3_Witness ==
    Returned("send_cmd") /\ op.cmd = 12 /\ op.data = << \h41, \h42 >>

(* C4: a write() whose data is shorter than 2 bytes or of odd length ends  *)
(* at once with ValueError: no transport call is made, and the lines and   *)
(* the state machine stay as they were.                                    *)
C4_WriteRejected ==
    [][ ( /\ pc = "idle"
          /\ op'.name = "write"
          /\ (Len(op'.data) < 2 \/ Len(op'.data) % 2 = 1) )
        => ( /\ pc' = "done"
             /\ ret' = "ValueError"
             /\ wire' = << >>
             /\ todo' = << >>
             /\ sda' = sda /\ clk' = clk /\ aux' = aux
             /\ Mode' = Mode ) ]_vars

\* write() of three bytes was rejected while the lines stood in Programming
C4_Witness ==
    /\ pc = "done" /\ op.name = "write" /\ ret = "ValueError"
    /\ Len(op.data) = 3 /\ op.eeprom /\ op.erase
    /\ Mode = "Programming"

(* C5: a read() of length 0 ends at once with ValueError: no transport     *)
(* call is made, and the lines and the state machine stay as they were.    *)
C5_ReadRejected ==
    [][ ( /\ pc = "idle"
          /\ op'.name = "read"
          /\ op'.length = 0 )
        => ( /\ pc' = "done"
             /\ ret' = "ValueError"
             /\ wire' = << >>
             /\ todo' = << >>
             /\ sda' = sda /\ clk' = clk /\ aux' = aux
             /\ Mode' = Mode ) ]_vars

\* read() of length 0 from EEPROM was rejected while the lines stood in
\* Programming
C5_Witness ==
    /\ pc = "done" /\ op.name = "read" /\ ret = "ValueError"
    /\ op.length = 0 /\ op.eeprom
    /\ Mode = "Programming"

-----------------------------------------------------------------------------
(* C7: write(0x800, b"ABCD") to program memory without erase puts exactly  *)
(* this on the wire: Enter, BSF EECON1,EEPGD, BCF EECON1,CFGS, table       *)
(* pointer 0x000800, BSF EECON1,WREN, BSF EECON1,FREE, instruction 0x0D    *)
(* with payload [B,A], instruction 0x0F with payload [D,C], data low, 3    *)
(* clock pulses, clock high, 1 second hold, clock low, 2 no-ops,           *)
(* BCF EECON1,WREN, Exit.                                                  *)
C7_WriteABCD ==
    ( /\ Returned("write")
      /\ op.addr = \h800 /\ op.data = << \h41, \h42, \h43, \h44 >>
      /\ ~op.eeprom /\ ~op.erase )
    => wire = EnterTrace
              \o Instr(0, <<\h8E, \hA6>>)
              \o Instr(0, <<\h9C, \hA6>>)
              \o TablePointer(\h800)
              \o Instr(0, <<\h84, \hA6>>)
              \o Instr(0, <<\h88, \hA6>>)
              \o Instr(\h0D, <<\h42, \h41>>)
              \o Instr(\h0F, <<\h44, \h43>>)
              \o << <<"sda", 0, 0>>,
                    <<"clocks", 0, 3>>,
                    <<"clk", 1, 0>>,
                    <<"sleep", 0, 1>>,
                    <<"clk", 0, 0>> >>
              \o NoOp \o NoOp
              \o Instr(0, <<\h94, \hA6>>)
              \o ExitTrace

\* write(0x800, b"ABCD") has returned
C7_Witness ==
    /\ Returned("write")
    /\ op.addr = \h800 /\ op.data = << \h41, \h42, \h43, \h44 >>
    /\ ~op.eeprom /\ ~op.erase

(* C8: read(address, length >= 1) of program memory that returns has put   *)
(* exactly this on the wire: Enter, the table pointer loaded once with     *)
(* address, `length` times instruction 0x09 followed by one received byte, *)
(* Exit; and it returns exactly those `length` bytes in the order          *)
(* received.                                                               *)
C8_ProgramRead ==
    ( Returned("read") /\ ~op.eeprom )
    => /\ Len(data) = op.length
       /\ \A k \in 1..Len(data) : data[k] = Image(op.img, k - 1)
       /\ wire = EnterTrace \o TablePointer(op.addr)
                 \o TableReads(\h09, data) \o ExitTrace

\* read(0x800, 4) has returned four distinct bytes
C8_Witness ==
    /\ Returned("read") /\ ~op.eeprom
    /\ op.addr = \h800 /\ op.length = 4
    /\ Len(data) = 4 /\ data[1] # data[4]

\* the table writes and no-ops among the instructions of a trace
PanelWrites(w) ==
    SelectSeq(Instructions(w), LAMBDA x : x[1] = \h0C \/ x = <<0, 0, 0>>)

(* C9 as stated: erasePanel issues [0x0C, idByte1, idByte1], then          *)
(* [0x0C, idByte0, idByte0], then a no-op, then a no-op.                   *)
C9_Original ==
    Returned("erase_panel") =>
      PanelWrites(wire) = << << \h0C, op.data[2], op.data[2] >>,
                             << \h0C, op.data[1], op.data[1] >>,
                             << 0, 0, 0 >>, << 0, 0, 0 >> >>

(* C9 as amended: erasePanel issues its table-write and no-op instructions *)
(* in the order [0x0C, idByte0, idByte0], then [0x0C, idByte1, idByte1],   *)
(* then a no-op, then a no-op.                                             *)
C9_PanelWriteOrder ==
    Returned("erase_panel") =>
      PanelWrites(wire) = << << \h0C, op.data[1], op.data[1] >>,
                             << \h0C, op.data[2], op.data[2] >>,
                             << 0, 0, 0 >>, << 0, 0, 0 >> >>

\* erase_panel(b"\x0F\x8F"), chip erase, has returned
C9_Witness == Returned("erase_panel") /\ op.data = << \h0F, \h8F >>

(* C10: get_dev_ID() without an address loads the table pointer once with  *)
(* 0x3FFFFE and reads exactly 2 bytes, each after one instruction 0x09;    *)
(* nothing else is on the wire between Enter and Exit.                     *)
C10_DeviceID ==
    ( Returned("get_dev_ID") /\ op.addr = NoAddr )
    => /\ Len(data) = 2
       /\ wire = EnterTrace \o TablePointer(\h3FFFFE)
                 \o TableReads(\h09, data) \o ExitTrace

\* get_dev_ID() has returned two bytes
C10_Witness ==
    Returned("get_dev_ID") /\ op.addr = NoAddr /\ Len(data) = 2 /\ data[1] # data[2]

\* the table-write instructions of a trace, opcodes 0x0C to 0x0F
TableWrites(w) ==
    SelectSeq(Instructions(w), LAMBDA x : x[1] \in \h0C..\h0F)

(* C11: in a program-memory write of any even length n >= 2, n = 2         *)
(* included, every two-byte chunk is handed to the encoder with its byte   *)
(* order reversed, so that every chunk reaches the wire in the same        *)
(* order: data[k] first, data[k+1] second, as [0x0D, B, A] does for the    *)
(* first chunk of b"ABCD".                                                 *)
C11_UniformChunkOrder ==
    ( Returned("write") /\ ~op.eeprom )
    => LET tw == TableWrites(wire) IN
       \A j \in 1..Len(tw) :
          /\ Len(tw[j]) = 3
          /\ 2 * j <= Len(op.data)
          /\ tw[j][2] = op.data[2 * j - 1]
          /\ tw[j][3] = op.data[2 * j]

(* C12: a program-memory write of even length n >= 2 issues exactly        *)
(* n/2 - 1 instructions 0x0D, carrying chunks 0 .. n/2 - 2 in increasing   *)
(* order, and then exactly one instruction 0x0F carrying the last pair;    *)
(* every payload byte is carried by exactly one of them and the 0x0F is    *)
(* the last table-write instruction of the call.                           *)
C12_ChunkStructure ==
    ( Returned("write") /\ ~op.eeprom )
    => LET tw == TableWrites(wire)
           half == Len(op.data) \div 2
       IN /\ Len(tw) = half
          /\ \A j \in 1..Len(tw) :
                /\ tw[j][1] = IF j < half THEN \h0D ELSE \h0F
                /\ Len(tw[j]) = 3
                /\ { tw[j][2], tw[j][3] } = { op.data[2 * j - 1], op.data[2 * j] }

\* write(addr, b"ABCDEF", erase=True) has returned
C12_Witness ==
    Returned("write") /\ ~op.eeprom /\ op.erase /\ Len(op.data) = 6

\* core instructions as Instructions() shows them: opcode 0, then the two
\* payload bytes in wire order
BSF_RD == << 0, \hA6, \h80 >>
MOVF_EEDATA == << 0, \hA8, \h50 >>
MOVWF_TABLAT == << 0, \hF5, \h6E >>
BCF_EEPGD == << 0, \hA6, \h9E >>
BCF_CFGS == << 0, \hA6, \h9C >>

\* the place of the first instruction x after place i, Len + 1 if none
FirstAfter(instrs, i, x) ==
    LET at == { j \in (i + 1)..Len(instrs) : instrs[j] = x }
    IN IF at = { } THEN Len(instrs) + 1
       ELSE CHOOSE j \in at : \A k \in at : j <= k

\* how many times x occurs in a sequence
Occurrences(seq, x) == Cardinality({ j \in 1..Len(seq) : seq[j] = x })

(* C13: in an EEPROM read, for each offset, once the read-request bit is   *)
(* set (0x80 0xA6), the move of EEDATA into the working register           *)
(* (0x50 0xA8) is issued before the move of the working register into      *)
(* TABLAT (0x6E 0xF5).                                                     *)
C13_EepromReadOrder ==
    ( Returned("read") /\ op.eeprom )
    => LET instrs == Instructions(wire) IN
       /\ Occurrences(instrs, BSF_RD) = op.length
       /\ \A i \in 1..Len(instrs) :
             instrs[i] = BSF_RD =>
                /\ FirstAfter(instrs, i, MOVF_EEDATA) <= Len(instrs)
                /\ FirstAfter(instrs, i, MOVF_EEDATA)
                       < FirstAfter(instrs, i, MOVWF_TABLAT)

\* the no-op instructions that end right before place i of a trace
RECURSIVE SettleNops(_, _)
SettleNops(w, i) ==
    IF i > 3 /\ SubSeq(w, i - 3, i - 1) = NoOp
    THEN 1 + SettleNops(w, i - 3)
    ELSE 0

\* the places of a trace where a byte was received
ReadBacks(w) == { i \in 1..Len(w) : Kind(w[i]) = "rx" }

\* an EEPROM read that settles with `settle` no-ops before each read-back:
\* one read-back per offset, all the no-ops of the call are those right
\* before the read-backs and follow the move into TABLAT of their offset,
\* and EEPGD and CFGS are cleared once, first thing after Enter
EepromReadSettle(settle) ==
    LET instrs == Instructions(wire)
        rb == ReadBacks(wire)
    IN /\ Cardinality(rb) = op.length
       /\ Occurrences(instrs, << 0, 0, 0 >>) = settle * op.length
       /\ Occurrences(instrs, MOVWF_TABLAT) = op.length
       /\ \A i \in rb :
             /\ SettleNops(wire, i) = settle
             /\ \E j \in 1..(i - 3 * settle - 3) :
                   /\ SubSeq(wire, j, j + 2) = Instr(0, <<\h6E, \hF5>>)
                   /\ \A r \in rb : ~(j < r /\ r < i)
       /\ Occurrences(instrs, BCF_EEPGD) = 1
       /\ Occurrences(instrs, BCF_CFGS) = 1
       /\ instrs[1] = BCF_EEPGD
       /\ instrs[2] = BCF_CFGS

(* C14 as stated: in an EEPROM read, for each offset, exactly two no-op    *)
(* instructions are issued after the move into TABLAT and before the       *)
(* read-back of the offset; EEPGD and CFGS are cleared exactly once per    *)
(* call, before the first offset.                                          *)
C14_Original ==
    ( Returned("read") /\ op.eeprom ) => EepromReadSettle(2)

(* C14 as amended: in an EEPROM read, for each offset, exactly one no-op   *)
(* instruction is issued after the move into TABLAT and before the         *)
(* read-back of the offset; EEPGD and CFGS are cleared exactly once per    *)
(* call, before the first offset.                                          *)
C14_EepromReadSettle ==
    ( Returned("read") /\ op.eeprom ) => EepromReadSettle(1)

\* read(0x800, 3, eeprom=True) has returned its three bytes
C14_Witness ==
    Returned("read") /\ op.eeprom /\ op.addr = \h800 /\ Len(data) = 3

(* C15: erasePanel of a two-byte panel identifier puts exactly this on the *)
(* wire: Enter; the table pointer set to 0x3C0005; one table write 0x0C    *)
(* with identifier byte 0 twice; the table pointer set to 0x3C0004; one    *)
(* table write 0x0C with identifier byte 1 twice; two no-ops; Exit.  It    *)
(* never polls the write-control register and never receives a byte.       *)
C15_ErasePanelScript ==
    Returned("erase_panel")
    => /\ wire = EnterTrace
                 \o TablePointer(\h3C0005)
                 \o Instr(\h0C, << op.data[1], op.data[1] >>)
                 \o TablePointer(\h3C0004)
                 \o Instr(\h0C, << op.data[2], op.data[2] >>)
                 \o NoOp \o NoOp
                 \o ExitTrace
       /\ ReadBacks(wire) = { }
       /\ Occurrences(Instructions(wire), << 0, \hA6, \h50 >>) = 0
       /\ polls = 0

\* erase_panel(b"\x00\x88"), boot block and panel 4 excluded, has returned
C15_Witness == Returned("erase_panel") /\ op.data = << \h00, \h88 >>

\* a write() whose address fits the memory it writes is running
WriteRunning ==
    /\ pc = "run"
    /\ op.name = "write"
    /\ op.addr < (IF op.eeprom THEN 2 ^ 16 ELSE 2 ^ 24)

\* write() has performed Exit and returned
WriteExited ==
    /\ Returned("write")
    /\ LastFour(wire) = ExitTrace
    /\ Mode = "Idle"

\* write() waits in Programming mode and has not started Exit
WriteHangs ==
    /\ pc = "run"
    /\ op.name = "write"
    /\ Mode = "Programming"
    /\ \A i \in 1..Len(wire) : Kind(wire[i]) = "aux" => Value(wire[i]) = 1

(* C16: the wait loop of write() repeats poll_wr with no bound.  If every  *)
(* wait loop is eventually answered with the write-in-progress bit clear,  *)
(* a running write() eventually performs Exit and returns; if from some    *)
(* point on write() is only ever answered busy, it never returns, never    *)
(* performs Exit, and the lines stay in Programming for ever.              *)
C16_WriteCompletion ==
    /\ ([]<>(busy = 0)) => [](WriteRunning => <>WriteExited)
    /\ (<>[](op.name = "write" /\ busy # 0)) => <>[]WriteHangs

\* a wait loop of write() that has been answered busy more often than the
\* trace keeps, and polls again
C16_Witness ==
    /\ pc = "run" /\ op.name = "write"
    /\ polls = MaxPolls /\ busy # 0
    /\ todo # << >> /\ Kind(Head(todo)) = "rxpoll"
    /\ Cardinality(ReadBacks(wire)) = MaxPolls

\* the byte the last read(1) of a trace returned
LastReceived(w) == Value(w[Len(w)])

(* C17: poll_wr puts on the wire, in order, the move of EECON1 to the      *)
(* working register (0x50 0xA6), the move of the working register to       *)
(* TABLAT (0x6E 0xF5), one no-op and one instruction 0x02, then receives   *)
(* exactly one byte b and returns bit 1 of b, for every byte 0..255.       *)
C17_PollResult ==
    Returned("poll_wr")
    => /\ Len(wire) = 12
       /\ SubSeq(wire, 1, 11) = Instr(0, <<\h50, \hA6>>)
                                \o Instr(0, <<\h6E, \hF5>>)
                                \o NoOp
                                \o Instr(2, <<0>>)
       /\ Kind(wire[12]) = "rx"
       /\ LastReceived(wire) \in 0..255
       /\ busy = IF LastReceived(wire) % 4 >= 2 THEN 1 ELSE 0

\* poll_wr() has received 0xFD, every bit set but bit 1, and returned 0
C17_Witness ==
    Returned("poll_wr") /\ LastReceived(wire) = \hFD /\ busy = 0

\* the four core instructions that load a 16-bit EEPROM address
EepromAddress(e) ==
    Instr(0, <<\h0E, (e \div 256) % 256>>) \o Instr(0, <<\h6E, \hAA>>) \o
    Instr(0, <<\h0E, e % 256>>)            \o Instr(0, <<\h6E, \hA9>>)

(* C18: for every 24-bit address a, set_tblptr(a) issues exactly six core  *)
(* instructions: load (a >> 16) & 0xFF, move to TBLPTRU (0x6E 0xF8), load  *)
(* (a >> 8) & 0xFF, move to TBLPTRH (0x6E 0xF7), load a & 0xFF, move to    *)
(* TBLPTRL (0x6E 0xF6); for every 16-bit address e, set_eeaddr(e) issues   *)
(* exactly four: load (e >> 8) & 0xFF, move to EEADRH (0x6E 0xAA), load    *)
(* e & 0xFF, move to EEADR (0x6E 0xA9).                                    *)
C18_SequencerBytes ==
    /\ ( pc = "done" /\ op.name = "set_tblptr" /\ op.addr < 2 ^ 24
         /\ ret # "TransportFailure" )
       => /\ ret = "ok"
          /\ Len(Instructions(wire)) = 6
          /\ wire = TablePointer(op.addr)
    /\ ( pc = "done" /\ op.name = "set_eeaddr" /\ op.addr < 2 ^ 16
         /\ ret # "TransportFailure" )
       => /\ ret = "ok"
          /\ Len(Instructions(wire)) = 4
          /\ wire = EepromAddress(op.addr)

\* set_tblptr(0x12AB34) has returned: three distinct bytes
C18_Witness ==
    Returned("set_tblptr") /\ op.addr = \h12AB34 /\ Len(wire) = 18

\* the bytes a trace received, in order
Answers(w) ==
    LET rx == SelectSeq(w, LAMBDA e : Kind(e) = "rx")
    IN [i \in 1..Len(rx) |-> Value(rx[i])]

\* one poll_wr on the wire, answered with byte b
Poll(b) ==
    Instr(0, <<\h50, \hA6>>) \o Instr(0, <<\h6E, \hF5>>) \o NoOp
    \o Instr(2, <<0>>) \o << <<"rx", b, 1>> >>

RECURSIVE PollsOf(_)
PollsOf(answers) ==
    IF answers = << >> THEN << >>
    ELSE Poll(Head(answers)) \o PollsOf(Tail(answers))

\* bit 1 of the answer, write in progress, is set
SaysBusy(b) == b % 4 >= 2

\* the place of the first answer that is not busy, 0 if there is none
FirstClear(answers) ==
    LET at == { i \in 1..Len(answers) : ~SaysBusy(answers[i]) }
    IN IF at = { } THEN 0 ELSE CHOOSE i \in at : \A k \in at : i <= k

\* what no trace contains
Mismatch == << <<"mismatch", 0, 0>> >>

\* the per-byte part of an EEPROM write, given the answers of the target:
\* each byte is latched, write-enable re-asserted, two no-ops issued, and
\* poll_wr repeated up to and including the first answer that is not busy
RECURSIVE EepromByteWrites(_, _)
EepromByteWrites(bytes, answers) ==
    IF bytes = << >>
    THEN (IF answers = << >> THEN << >> ELSE Mismatch)
    ELSE LET c == FirstClear(answers) IN
         IF c = 0 THEN Mismatch
         ELSE Instr(\h0E, << Head(bytes) >>)
              \o Instr(0, <<\h84, \hA6>>)
              \o NoOp \o NoOp
              \o PollsOf(SubSeq(answers, 1, c))
              \o EepromByteWrites(Tail(bytes), SubSeq(answers, c + 1, Len(answers)))

(* C19: an EEPROM write of even length n >= 2 that returns has set the     *)
(* EEPROM address exactly once, before the first byte, and then for each   *)
(* k = 0 .. n-1 in increasing order has latched data[k] as a one-byte      *)
(* literal, re-asserted write-enable, issued two no-ops and repeated       *)
(* poll_wr; data[k+1] is latched only after a poll_wr following data[k]    *)
(* has answered not busy, and write-enable is cleared only after the poll  *)
(* for data[n-1] has answered not busy.                                    *)
C19_EepromWriteOrder ==
    ( Returned("write") /\ op.eeprom )
    => wire = EnterTrace
              \o Instr(0, <<\h9E, \hA6>>)
              \o Instr(0, <<\h9C, \hA6>>)
              \o EepromAddress(op.addr)
              \o Instr(0, <<\h84, \hA6>>)
              \o EepromByteWrites(op.data, Answers(wire))
              \o << <<"clk", 0, 0>> >>
              \o NoOp \o NoOp
              \o Instr(0, <<\h94, \hA6>>)
              \o ExitTrace

\* write(0x800, b"ABCD", eeprom=True) has returned after MaxPolls busy
\* answers
C19_Witness ==
    /\ Returned("write") /\ op.eeprom /\ op.addr = \h800
    /\ Len(op.data) = 4
    /\ polls = MaxPolls

\* the address of the call fits the memory the call addresses: 16 bits for
\* the data EEPROM, 24 bits for the table pointer
AddressInRange ==
    op.addr < (IF op.eeprom THEN 2 ^ 16 ELSE 2 ^ 24)

(* C20: set_tblptr and set_eeaddr cannot fail locally.  For every address  *)
(* an operation passes to them, each addr + offset of an EEPROM read with  *)
(* a 16-bit addr and an offset below length included, the call issues all  *)
(* its instructions and returns; a call ends with an error only when the   *)
(* signal driver has failed.                                               *)
C20_SequencerCannotFail ==
    ( /\ pc = "done"
      /\ op.name \in SessionOps \cup { "set_tblptr", "set_eeaddr" }
      /\ AddressInRange
      /\ wire # << >> )
    => ret \in { "ok", "TransportFailure" }

=============================================================================
